---- MODULE Spec2Model ----
(***************************************************************************)
(* A model of the notebook-to-grading-bundle compiler of otter:            *)
(*   otter/assign/utils.py  str_to_doctest                                 *)
(*   otter/assign/tests.py  read_test, gen_test_cell, gen_suite, gen_case, *)
(*                          write_test, remove_hidden_tests_from_dir,      *)
(*                          is_test_cell                                   *)
(*   otter/assign/utils.py  run_tests, run_generate_autograder, add_tag,   *)
(*                          has_tag, remove_tag                            *)
(*   otter/containers.py    launch_parallel_containers, grade_assignments  *)
(* Python strings are sequences of one-character strings, so that strip,   *)
(* startswith, endswith, split and join are computed character by          *)
(* character as the interpreter computes them.                             *)
(***************************************************************************)
EXTENDS Integers, Sequences, FiniteSets, TLC

VARIABLES
    code_lines,     \* str_to_doctest: the list of lines handed to the converter
    dt_result,      \* str_to_doctest: what the call produced
    cell,           \* read_test: the test cell (source lines, outputs)
    rt_result,      \* read_test: what the call produced
    question,       \* gen_test_cell: the question of the latest call
    tests,          \* gen_test_cell: the Tests of the latest call
    tests_dict,     \* gen_test_cell: the shared name -> test mapping
    gen_result,     \* gen_test_cell: what the latest call produced
    test_dir,       \* remove_hidden_tests_from_dir: the directory, a list of files
    runs,           \* remove_hidden_tests_from_dir: completed runs
    run_log,        \* remove_hidden_tests_from_dir: the directory as each run found and left it
    gc_test,        \* gen_case: the Test handed to it
    gc_result,      \* gen_case: its locals and what the call produced
    nb_cell,        \* is_test_cell: the notebook cell
    is_test,        \* is_test_cell: what the call reported
    rn_results,     \* run_tests: the grading results of the autograder notebook
    rn_result,      \* run_tests: what the call produced
    batch,          \* launch_parallel_containers: its arguments, position and outcome
    workers,        \* grade_assignments: the state of each submitted worker
    partition,      \* launch_parallel_containers: the listing and the tmp directories
    generate,       \* run_generate_autograder: the assignment, the cwd and the outcome
    tag_cell,       \* add_tag, remove_tag: the cell the latest call returned
    tag_call        \* add_tag, remove_tag: the latest call

vars == <<code_lines, dt_result, cell, rt_result, question, tests, tests_dict,
          gen_result, test_dir, runs, run_log, gc_test, gc_result, nb_cell,
          is_test, rn_results, rn_result, batch, workers, partition, generate,
          tag_cell, tag_call>>

dtVars  == <<code_lines, dt_result>>
rtVars  == <<cell, rt_result>>
genVars == <<question, tests, tests_dict, gen_result>>
rdVars  == <<test_dir, runs, run_log>>
gcVars  == <<gc_test, gc_result>>
clVars  == <<nb_cell, is_test>>
rnVars  == <<rn_results, rn_result>>
baVars  == <<batch, workers>>
paVars  == <<partition>>
gaVars  == <<generate>>
tgVars  == <<tag_cell, tag_call>>

\* an optional string: Python's None, or a str
None == [some |-> FALSE, value |-> <<>>]
Some(v) == [some |-> TRUE, value |-> v]

----------------------------------------------------------------------------
(* Python str operations on sequences of characters                        *)

\* str.strip() / str.rstrip() with no argument strip ASCII whitespace
Whitespace == {" ", "\t", "\n", "\r"}

\* \w of the re module: letters, digits and the underscore
Digits == {"0","1","2","3","4","5","6","7","8","9"}

startswith(s, p) ==
    /\ Len(p) <= Len(s)
    /\ SubSeq(s, 1, Len(p)) = p

endswith(s, p) ==
    /\ Len(p) <= Len(s)
    /\ SubSeq(s, Len(s) - Len(p) + 1, Len(s)) = p

\* s.rstrip(): s up to its last character that is not whitespace
rstrip(s) ==
    LET keep == {i \in 1..Len(s) : s[i] \notin Whitespace}
    IN IF keep = {} THEN <<>>
       ELSE SubSeq(s, 1, CHOOSE i \in keep : \A j \in keep : j <= i)

\* s.lstrip(): s from its first character that is not whitespace
lstrip(s) ==
    LET keep == {i \in 1..Len(s) : s[i] \notin Whitespace}
    IN IF keep = {} THEN <<>>
       ELSE SubSeq(s, CHOOSE i \in keep : \A j \in keep : i <= j, Len(s))

strip(s) == lstrip(rstrip(s))

\* needle in s
contains(s, needle) ==
    \E i \in 1..(Len(s) - Len(needle) + 1) :
        SubSeq(s, i, i + Len(needle) - 1) = needle

\* str.lower()
UpperCase == <<"A","B","C","D","E","F","G","H","I","J","K","L","M",
               "N","O","P","Q","R","S","T","U","V","W","X","Y","Z">>
LowerCase == <<"a","b","c","d","e","f","g","h","i","j","k","l","m",
               "n","o","p","q","r","s","t","u","v","w","x","y","z">>

LowerOf(c) ==
    IF \E i \in 1..26 : UpperCase[i] = c
    THEN LowerCase[CHOOSE i \in 1..26 : UpperCase[i] = c]
    ELSE c

RECURSIVE lower(_)
lower(s) == IF Len(s) = 0 THEN <<>> ELSE <<LowerOf(Head(s))>> \o lower(Tail(s))

WordChars ==
    {UpperCase[i] : i \in 1..26} \cup {LowerCase[i] : i \in 1..26} \cup Digits \cup {"_"}

\* sep.join(parts) for a one-character separator
RECURSIVE join(_, _)
join(sep, parts) ==
    IF Len(parts) = 0 THEN <<>>
    ELSE IF Len(parts) = 1 THEN parts[1]
    ELSE parts[1] \o <<sep>> \o join(sep, Tail(parts))

\* s.split(sep) for a one-character separator: always at least one part
\* the parts of s from position `from` on, scanning from position k
RECURSIVE split_at(_, _, _, _)
split_at(s, sep, from, k) ==
    IF k > Len(s) THEN <<SubSeq(s, from, Len(s))>>
    ELSE IF s[k] = sep
    THEN <<SubSeq(s, from, k - 1)>> \o split_at(s, sep, k + 1, k + 1)
    ELSE split_at(s, sep, from, k + 1)

split(s, sep) == split_at(s, sep, 1, 1)

----------------------------------------------------------------------------
(* otter/assign/utils.py: str_to_doctest                                   *)

PROMPT == <<">", ">", ">", " ">>
CONT   == <<".", ".", ".", " ">>

OpenBrackets  == {"(", "[", "{"}
CloseBrackets == {")", "]", "}"}

\* the for-loop over the characters of a line: push on an opening bracket,
\* pop on a closing one; list.pop() on an empty list raises IndexError
RECURSIVE scan_from(_, _, _)
scan_from(line, i, opens) ==
    IF i > Len(line) THEN [raised |-> FALSE, opens |-> opens]
    ELSE IF line[i] \in OpenBrackets
         THEN scan_from(line, i + 1, Append(opens, line[i]))
    ELSE IF line[i] \in CloseBrackets
         THEN IF Len(opens) = 0
              THEN [raised |-> TRUE, opens |-> opens]
              ELSE scan_from(line, i + 1, SubSeq(opens, 1, Len(opens) - 1))
    ELSE scan_from(line, i + 1, opens)

scan_brackets(line, opens) == scan_from(line, 1, opens)

\* re.match(r"^except[\s\w]*:", line)
except_match(line) ==
    /\ startswith(line, <<"e","x","c","e","p","t">>)
    /\ \E k \in 7..Len(line) :
          /\ line[k] = ":"
          /\ \A j \in 7..(k - 1) : line[j] \in Whitespace \cup WordChars

\* the second branch of the if-chain: a clause of a compound statement
clause_opener(line) ==
    \/ except_match(line)
    \/ startswith(line, <<"e","l","i","f"," ">>)
    \/ startswith(line, <<"e","l","s","e",":">>)
    \/ startswith(line, <<"f","i","n","a","l","l","y",":">>)

\* the chain without its last elif: open brackets do not continue a statement
prefix_without_brackets(line, lines, in_statement) ==
    IF startswith(line, <<" ">>) \/ startswith(line, <<"\t">>) THEN CONT
    ELSE IF clause_opener(line) THEN CONT
    ELSE IF Len(lines) > 0 /\ endswith(strip(lines[Len(lines)]), <<"\\">>) THEN CONT
    ELSE PROMPT

\* the chain with prompts that lack their trailing space
prefix_without_space(line, lines, in_statement) ==
    IF prefix_without_brackets(line, lines, in_statement) = CONT \/ in_statement
    THEN <<".", ".", ".">>
    ELSE <<">", ">", ">">>

\* the chain without its first branch: indentation does not continue a statement
prefix_without_indent(line, lines, in_statement) ==
    IF clause_opener(line) THEN CONT
    ELSE IF Len(lines) > 0 /\ endswith(strip(lines[Len(lines)]), <<"\\">>) THEN CONT
    ELSE IF in_statement THEN CONT
    ELSE PROMPT

\* the if-chain that chooses the prompt of a line
prefix_of(line, lines, in_statement) ==
    IF startswith(line, <<" ">>) \/ startswith(line, <<"\t">>) THEN CONT
    ELSE IF clause_opener(line) THEN CONT
    ELSE IF Len(lines) > 0 /\ endswith(strip(lines[Len(lines)]), <<"\\">>) THEN CONT
    ELSE IF in_statement THEN CONT
    ELSE PROMPT

RECURSIVE str_to_doctest(_, _, _)
str_to_doctest(cl, lines, opens) ==
    IF Len(cl) = 0 THEN [raised |-> FALSE, lines |-> lines]
    ELSE LET in_statement == Len(opens) > 0
             line == Head(cl)
             sc   == scan_brackets(line, opens)
         IN IF sc.raised
            THEN [raised |-> TRUE, lines |-> <<>>]
            ELSE str_to_doctest(Tail(cl),
                                Append(lines, prefix_of(line, lines, in_statement) \o line),
                                sc.opens)

----------------------------------------------------------------------------
(* Inputs of the converter                                                 *)

SeqsUpTo(S, n) == UNION {[1..k -> S] : k \in 0..n}

MaxLines == 3

L_open    == <<"x"," ","="," ","(">>
L_one     == <<"1",",">>
L_close   == <<"2",")">>
L_x1      == <<"x"," ","="," ","1">>
L_y2      == <<"y"," ","="," ","2">>
L_if      == <<"i","f"," ","x",":">>
L_body    == <<" "," "," "," ","y"," ","="," ","1">>
L_tab     == <<"\t","y">>
L_else    == <<"e","l","s","e",":">>
L_elif    == <<"e","l","i","f"," ","y",":">>
L_except  == <<"e","x","c","e","p","t"," ","E",":">>
L_finally == <<"f","i","n","a","l","l","y",":">>
L_bslash  == <<"z"," ","="," ","\\"," ">>
L_unbal   == <<")">>
L_empty   == <<>>

DoctestLines == {L_open, L_one, L_close, L_x1, L_y2, L_if, L_body, L_tab, L_else,
                 L_elif, L_except, L_finally, L_bslash, L_unbal, L_empty}

DoctestInit ==
    /\ code_lines \in SeqsUpTo(DoctestLines, MaxLines)
    /\ dt_result = [status |-> "none", lines |-> <<>>]

DoctestIdle ==
    /\ code_lines = <<>>
    /\ dt_result = [status |-> "idle", lines |-> <<>>]

\* gen_case's call: str_to_doctest(test.input.split('\n'), [])
Convert ==
    /\ dt_result.status = "none"
    /\ LET r == str_to_doctest(code_lines, <<>>, <<>>)
       IN dt_result' = [status |-> IF r.raised THEN "IndexError" ELSE "done",
                        lines  |-> r.lines]
    /\ UNCHANGED <<code_lines, rtVars, genVars, rdVars, gcVars, clVars, rnVars, baVars, paVars, gaVars, tgVars>>

----------------------------------------------------------------------------
(* otter/assign/tests.py: read_test                                        *)

BEGIN == <<"#"," ","B","E","G","I","N"," ","T","E","S","T">>
END   == <<"#"," ","E","N","D"," ","T","E","S","T">>

S_points  == <<"p","o","i","n","t","s">>
S_hidden  == <<"h","i","d","d","e","n">>
S_success == <<"s","u","c","c","e","s","s","_","m","e","s","s","a","g","e">>
S_failure == <<"f","a","i","l","u","r","e","_","m","e","s","s","a","g","e">>
S_true    == <<"t","r","u","e">>

\* value = line.rstrip().split(":"); value[-1].strip()
key_value(line) ==
    LET value == split(rstrip(line), ":")
    IN strip(value[Len(value)])

\* the loop over the outputs of the cell that builds the expected output
RECURSIVE read_output(_)
read_output(outputs) ==
    IF Len(outputs) = 0 THEN <<>>
    ELSE LET o == Head(outputs)
             results == o.plain
             shown ==
                 IF results.kind = "list" /\ Len(results.value) > 0
                 THEN results.value[1]
                 ELSE IF results.kind = "str" /\ Len(results.value) > 0
                 THEN results.value
                 ELSE <<>>
         IN o.text \o shown \o read_output(Tail(outputs))

\* the for-loop over the lines of the cell, from line i on; st holds the
\* locals has_metadata, hidden, points, success_message, failure_message
RECURSIVE parse_lines(_, _, _)
parse_lines(lines, i, st) ==
    IF i > Len(lines) THEN st
    ELSE LET line == rstrip(lines[i])
         IN IF endswith(line, END) THEN st
            ELSE IF endswith(line, BEGIN)
                 THEN parse_lines(lines, i + 1, [st EXCEPT !.has_metadata = TRUE])
            ELSE IF ~st.has_metadata THEN st
            ELSE IF startswith(line, S_points)
                 THEN parse_lines(lines, i + 1, [st EXCEPT !.points = Some(key_value(lines[i]))])
            ELSE IF startswith(line, S_hidden)
                 THEN parse_lines(lines, i + 1,
                          [st EXCEPT !.hidden = contains(lower(key_value(lines[i])), S_true)])
            ELSE IF startswith(line, S_success)
                 THEN parse_lines(lines, i + 1,
                          [st EXCEPT !.success_message = Some(key_value(lines[i]))])
            ELSE IF startswith(line, S_failure)
                 THEN parse_lines(lines, i + 1,
                          [st EXCEPT !.failure_message = Some(key_value(lines[i]))])
            ELSE IF Len(line) <= 1 THEN parse_lines(lines, i + 1, st)
            ELSE IF ~contains(line, <<":">>) THEN [st EXCEPT !.raised = TRUE]
            ELSE parse_lines(lines, i + 1, st)

\* the locals of read_test before its loop
read_test_locals(c) ==
    [has_metadata    |-> FALSE,
     hidden          |-> contains(lower(c.source[1]), S_hidden),
     points          |-> None,
     success_message |-> None,
     failure_message |-> None,
     raised          |-> FALSE]

\* the Test named tuple
NoTest == [input |-> <<>>, output |-> <<>>, hidden |-> FALSE, points |-> None,
           success_message |-> None, failure_message |-> None]

\* the named tuple read_test returns, or the ValueError it raises
make_test(c, st) ==
    IF st.raised
    THEN [status |-> "ValueError", test |-> NoTest]
    ELSE [status |-> "done",
          test   |-> [input           |-> join("\n", Tail(c.source)),
                      output          |-> read_output(c.outputs),
                      hidden          |-> st.hidden,
                      points          |-> st.points,
                      success_message |-> st.success_message,
                      failure_message |-> st.failure_message]]

\* a scan that starts after the marker line
read_test_after_first(c) == make_test(c, parse_lines(c.source, 2, read_test_locals(c)))

read_test(c) == make_test(c, parse_lines(c.source, 1, read_test_locals(c)))

----------------------------------------------------------------------------
(* Inputs of read_test: test cells                                         *)

MaxBody == 3

R_test     == <<"#"," ","T","E","S","T">>
R_hidtest  == <<"#"," ","H","I","D","D","E","N"," ","T","E","S","T">>
R_points   == <<"p","o","i","n","t","s",":"," ","3">>
R_hidden   == <<"h","i","d","d","e","n",":"," ","t","r","u","e">>
R_hidnote  == <<"h","i","d","d","e","n",":"," ","t","r","u","e"," ","#"," ","n","o","t","e",":"," ","x">>
R_public   == <<"h","i","d","d","e","n",":"," ","F","a","l","s","e">>
R_assert   == <<"a","s","s","e","r","t"," ","x"," ","=","="," ","1">>
R_one      == <<"x">>
R_blank    == <<" ">>
R_success  == <<"s","u","c","c","e","s","s","_","m","e","s","s","a","g","e",":"," ",
                "N","o","t","e",":"," ","g","o","o","d">>
R_failure  == <<"f","a","i","l","u","r","e","_","m","e","s","s","a","g","e",":"," ","n","o">>

FirstLines == {R_test, R_hidtest, BEGIN}
BodyLines  == {BEGIN, END, R_points, R_hidden, R_hidnote, R_public, R_assert, R_one,
               R_blank, R_success, R_failure}

\* the cell of the metadata-extraction example, and the same block in a cell
\* whose first line is the BEGIN TEST line
MarkerExample == <<R_test, BEGIN, R_points, R_hidden, END, R_assert>>
BlockExample  == <<BEGIN, R_points, R_hidden, END, R_assert>>

NoPlain == [kind |-> "none", value |-> <<>>]

\* outputs of an executed cell: none, or a stream and an execute_result
OutputsPool ==
    { <<>>,
      << [text |-> <<"1", "\n">>, plain |-> NoPlain],
         [text |-> <<>>, plain |-> [kind |-> "list", value |-> << <<"3">>, <<"4">> >>]] >> }

Sources ==
    {<<f>> \o b : f \in FirstLines, b \in SeqsUpTo(BodyLines, MaxBody)}
        \cup {MarkerExample, BlockExample}

NoCell == [source |-> <<>>, outputs |-> <<>>]

ReadInit ==
    /\ cell \in [source : Sources, outputs : OutputsPool]
    /\ rt_result = [status |-> "none", test |-> NoTest]

ReadIdle ==
    /\ cell = NoCell
    /\ rt_result = [status |-> "idle", test |-> NoTest]

ReadTest ==
    /\ rt_result.status = "none"
    /\ rt_result' = read_test(cell)
    /\ UNCHANGED <<cell, dtVars, genVars, rdVars, gcVars, clVars, rnVars, baVars, paVars, gaVars, tgVars>>

----------------------------------------------------------------------------
(* otter/assign/tests.py: gen_case, gen_suite, gen_test_cell               *)

\* float(s) over the strings a points line can give here: a str of decimal
\* digits converts, a str that is no number raises ValueError
DigitSeq == <<"0","1","2","3","4","5","6","7","8","9">>
DigitValue(c) == (CHOOSE i \in 1..10 : DigitSeq[i] = c) - 1

RECURSIVE digits_value(_)
digits_value(s) ==
    IF Len(s) = 0 THEN 0
    ELSE 10 * digits_value(SubSeq(s, 1, Len(s) - 1)) + DigitValue(s[Len(s)])

to_float(s) ==
    IF Len(s) > 0 /\ \A i \in 1..Len(s) : s[i] \in Digits
    THEN [raised |-> FALSE, value |-> digits_value(s)]
    ELSE [raised |-> TRUE, value |-> 0]

NoNumber == [some |-> FALSE, value |-> 0]

NoCase == [code |-> <<>>, hidden |-> FALSE, points |-> NoNumber,
           success_message |-> None, failure_message |-> None, locked |-> FALSE]

\* the index after which the case body starts: one past the last converted
\* line, the final one excepted, that ends with the END marker (0 if none)
new_start(cl) ==
    LET marked == {k \in 1..(Len(cl) - 1) : endswith(rstrip(cl[k]), END)}
    IN IF marked = {} THEN 0
       ELSE CHOOSE k \in marked : \A j \in marked : j <= k

\* the statement separator appended whatever the next line starts with
separated_any_next(cl) ==
    [k \in 1..Len(cl) |->
        IF /\ k < Len(cl)
           /\ Len(strip(cl[k])) > 3
           /\ ~endswith(strip(cl[k]), <<"\\">>)
        THEN cl[k] \o <<";">>
        ELSE cl[k]]

\* the statement separator appended inside the same loop
separated(cl) ==
    [k \in 1..Len(cl) |->
        IF /\ k < Len(cl)
           /\ startswith(cl[k + 1], <<">", ">", ">">>)
           /\ Len(strip(cl[k])) > 3
           /\ ~endswith(strip(cl[k]), <<"\\">>)
        THEN cl[k] \o <<";">>
        ELSE cl[k]]

\* gen_case without the append of test.output
gen_case_without_output(test) ==
    LET r == str_to_doctest(split(test.input, "\n"), <<>>, <<>>)
        body == SubSeq(separated(r.lines), new_start(r.lines) + 1, Len(r.lines))
        f == to_float(test.points.value)
    IN IF r.raised THEN [raised |-> "IndexError", case |-> NoCase]
       ELSE IF test.points.some /\ f.raised THEN [raised |-> "ValueError", case |-> NoCase]
       ELSE [raised |-> "",
             case |-> [code            |-> join("\n", body),
                       hidden          |-> test.hidden,
                       points          |-> IF test.points.some
                                           THEN [some |-> TRUE, value |-> f.value]
                                           ELSE NoNumber,
                       success_message |-> test.success_message,
                       failure_message |-> test.failure_message,
                       locked          |-> FALSE]]

gen_case(test) ==
    LET r == str_to_doctest(split(test.input, "\n"), <<>>, <<>>)
        body == SubSeq(separated(r.lines), new_start(r.lines) + 1, Len(r.lines))
        f == to_float(test.points.value)
    IN IF r.raised THEN [raised |-> "IndexError", case |-> NoCase]
       ELSE IF test.points.some /\ f.raised THEN [raised |-> "ValueError", case |-> NoCase]
       ELSE [raised |-> "",
             case |-> [code            |-> join("\n", Append(body, test.output)),
                       hidden          |-> test.hidden,
                       points          |-> IF test.points.some
                                           THEN [some |-> TRUE, value |-> f.value]
                                           ELSE NoNumber,
                       success_message |-> test.success_message,
                       failure_message |-> test.failure_message,
                       locked          |-> FALSE]]

\* the comprehension with each case put in front of those made so far
RECURSIVE gen_cases_reversed(_)
gen_cases_reversed(ts) ==
    IF Len(ts) = 0 THEN [raised |-> "", cases |-> <<>>]
    ELSE LET c == gen_case(Head(ts))
         IN IF c.raised # "" THEN [raised |-> c.raised, cases |-> <<>>]
            ELSE LET rest == gen_cases_reversed(Tail(ts))
                 IN IF rest.raised # "" THEN rest
                    ELSE [raised |-> "", cases |-> rest.cases \o <<c.case>>]

\* cases = [gen_case(test) for test in tests]: the first exception ends it
RECURSIVE gen_cases(_)
gen_cases(ts) ==
    IF Len(ts) = 0 THEN [raised |-> "", cases |-> <<>>]
    ELSE LET c == gen_case(Head(ts))
         IN IF c.raised # "" THEN [raised |-> c.raised, cases |-> <<>>]
            ELSE LET rest == gen_cases(Tail(ts))
                 IN IF rest.raised # "" THEN rest
                    ELSE [raised |-> "", cases |-> <<c.case>> \o rest.cases]

gen_suite(ts) ==
    LET made == gen_cases(ts)
    IN [raised |-> made.raised,
        suite  |-> [cases    |-> made.cases,
                    scored   |-> TRUE,
                    setup    |-> <<>>,
                    teardown |-> <<>>,
                    type     |-> "doctest"]]

\* a points value of the question metadata or of a stored test: a number
\* (value has one element), a list, or a mapping with the one key `key`
Number(n)     == [kind |-> "number", key |-> "", value |-> <<n>>]
List(l)       == [kind |-> "list", key |-> "", value |-> l]
Mapping(k, n) == [kind |-> "dict", key |-> k, value |-> <<n>>]

\* question.get('points', 1)
question_points(q) ==
    IF "points" \in DOMAIN q THEN q["points"] ELSE Number(1)

\* points.get('each', 1)
each_of(points) ==
    IF points.key = "each" THEN points.value[1] ELSE 1

\* the if/elif with a mapping's `each` taken as the points of the question
resolve_points_flat(points, suites, ts) ==
    IF points.kind = "dict"
    THEN [raised |-> FALSE, points |-> Number(each_of(points))]
    ELSE IF points.kind = "list" /\ Len(points.value) # Len(ts)
    THEN [raised |-> TRUE, points |-> points]
    ELSE [raised |-> FALSE, points |-> points]

\* the if/elif on the type of points: the stored value, or the ValueError
resolve_points(points, suites, ts) ==
    IF points.kind = "dict"
    THEN [raised |-> FALSE, points |-> Number(each_of(points) * Len(suites[1].cases))]
    ELSE IF points.kind = "list" /\ Len(points.value) # Len(ts)
    THEN [raised |-> TRUE, points |-> points]
    ELSE [raised |-> FALSE, points |-> points]

NoMessage == [question |-> "", len_points |-> 0, len_tests |-> 0]

check_cell(q) ==
    [source   |-> <<"grader.check", q["name"]>>,
     metadata |-> [editable |-> FALSE, deletable |-> FALSE]]

NoCheckCell == [source |-> <<>>, metadata |-> [editable |-> TRUE, deletable |-> TRUE]]

\* tests_dict maps every name to its test, or to NoEntry while it has no key
NoEntry == [name |-> "", points |-> Number(0), suites |-> <<>>]

\* tests_dict.setdefault(question['name'], test): an existing entry is kept
register_first(td, q, test) ==
    [n \in DOMAIN td |-> IF n = q["name"] /\ td[n] = NoEntry THEN test ELSE td[n]]

\* tests_dict[question['name']] = test
register(td, q, test) ==
    [n \in DOMAIN td |-> IF n = q["name"] THEN test ELSE td[n]]

gen_test_cell(q, ts, td) ==
    LET s == gen_suite(ts)
        suites == <<s.suite>>
        p == resolve_points(question_points(q), suites, ts)
    IN IF s.raised # ""
       THEN [status |-> s.raised, message |-> NoMessage, cell |-> NoCheckCell,
             tests_dict |-> td]
       ELSE IF p.raised
       THEN [status |-> "ValueError",
             message |-> [question   |-> q["name"],
                          len_points |-> Len(question_points(q).value),
                          len_tests  |-> Len(ts)],
             cell |-> NoCheckCell,
             tests_dict |-> td]
       ELSE [status |-> "done", message |-> NoMessage, cell |-> check_cell(q),
             tests_dict |-> register(td, q, [name   |-> q["name"],
                                             points |-> p.points,
                                             suites |-> suites])]

----------------------------------------------------------------------------
(* Inputs of gen_test_cell: questions and the Tests read from test cells   *)

MaxTests == 3

R_print  == <<"p","r","i","n","t","(","x",")">>
R_quoted == <<"a","s","s","e","r","t"," ","s"," ","=","="," ","\"",")","\"">>

T_public == read_test([source |-> <<R_test, R_assert>>, outputs |-> <<>>]).test
T_print  == read_test([source  |-> <<R_test, R_print>>,
                       outputs |-> << [text |-> <<"1", "\n">>, plain |-> NoPlain] >>]).test
T_hidden == read_test([source |-> BlockExample, outputs |-> <<>>]).test
\* a test that compares with a string holding a closing bracket
T_quoted == read_test([source |-> <<R_hidtest, R_quoted>>, outputs |-> <<>>]).test

TestPool == {T_public, T_hidden, T_quoted}

Names == {"q1", "q2"}

PointsPool ==
    {Number(2), Mapping("each", 2), Mapping("other", 5)}
        \cup {List([k \in 1..n |-> 10 * k]) : n \in 0..MaxTests}

Questions ==
    {[name |-> n] : n \in Names}
        \cup {[name |-> n, points |-> p] : n \in Names, p \in PointsPool}

\* tests_dict when the call is made: empty, or as an earlier question left it
EmptyDict == [n \in Names |-> NoEntry]

\* found is tests_dict as the latest call was handed it
NoGenResult == [status |-> "none", message |-> NoMessage, cell |-> NoCheckCell,
                found |-> EmptyDict]

EarlierDicts ==
    { EmptyDict,
      gen_test_cell([name |-> "q1"], <<T_public>>, EmptyDict).tests_dict,
      gen_test_cell([name |-> "q2", points |-> Mapping("each", 3)],
                    <<T_hidden, T_print>>, EmptyDict).tests_dict }

GenInit ==
    /\ question = [name |-> ""]
    /\ tests = <<>>
    /\ tests_dict \in EarlierDicts
    /\ gen_result = NoGenResult

GenIdle ==
    /\ question = [name |-> ""]
    /\ tests = <<>>
    /\ tests_dict = EmptyDict
    /\ gen_result = [NoGenResult EXCEPT !.status = "idle"]

GenTestCell ==
    /\ gen_result.status = "none"
    /\ \E q \in Questions, ts \in SeqsUpTo(TestPool, MaxTests) :
          LET r == gen_test_cell(q, ts, tests_dict)
          IN /\ question' = q
             /\ tests' = ts
             /\ tests_dict' = r.tests_dict
             /\ gen_result' = [status |-> r.status, message |-> r.message,
                               cell |-> r.cell, found |-> tests_dict]
    /\ UNCHANGED <<dtVars, rtVars, rdVars, gcVars, clVars, rnVars, baVars, paVars, gaVars, tgVars>>

----------------------------------------------------------------------------
(* otter/assign/tests.py: write_test, remove_hidden_tests_from_dir         *)

\* pprint.pprint of a dict: its items in the order of their keys
pprint_case(c) ==
    << <<"code", c.code>>, <<"failure_message", c.failure_message>>,
       <<"hidden", c.hidden>>, <<"locked", c.locked>>, <<"points", c.points>>,
       <<"success_message", c.success_message>> >>

RECURSIVE pprint_cases(_)
pprint_cases(cases) ==
    IF Len(cases) = 0 THEN <<>>
    ELSE <<pprint_case(Head(cases))>> \o pprint_cases(Tail(cases))

pprint_suite(su) ==
    << <<"cases", pprint_cases(su.cases)>>,
       <<"scored", su.scored>>, <<"setup", su.setup>>,
       <<"teardown", su.teardown>>, <<"type", su.type>> >>

RECURSIVE pprint_suites(_)
pprint_suites(suites) ==
    IF Len(suites) = 0 THEN <<>>
    ELSE <<pprint_suite(Head(suites))>> \o pprint_suites(Tail(suites))

\* the text write_test leaves in the file
write_test(test) ==
    << "test = ",
       << <<"name", test.name>>, <<"points", test.points>>,
          <<"suites", pprint_suites(test.suites)>> >> >>

\* the value a dict display gives for a key
item(display, key) ==
    display[CHOOSE k \in 1..Len(display) : display[k][1] = key][2]

exec_case(d) ==
    [code            |-> item(d, "code"),
     hidden          |-> item(d, "hidden"),
     points          |-> item(d, "points"),
     success_message |-> item(d, "success_message"),
     failure_message |-> item(d, "failure_message"),
     locked          |-> item(d, "locked")]

RECURSIVE exec_cases(_)
exec_cases(displays) ==
    IF Len(displays) = 0 THEN <<>>
    ELSE <<exec_case(Head(displays))>> \o exec_cases(Tail(displays))

exec_suite(d) ==
    [cases    |-> exec_cases(item(d, "cases")),
     scored   |-> item(d, "scored"),
     setup    |-> item(d, "setup"),
     teardown |-> item(d, "teardown"),
     type     |-> item(d, "type")]

RECURSIVE exec_suites(_)
exec_suites(displays) ==
    IF Len(displays) = 0 THEN <<>>
    ELSE <<exec_suite(Head(displays))>> \o exec_suites(Tail(displays))

\* exec(f2.read(), globals(), locals); test = locals['test']
exec_test(text) ==
    [name   |-> item(text[2], "name"),
     points |-> item(text[2], "points"),
     suites |-> exec_suites(item(text[2], "suites"))]

\* list.pop() without its index: the last element goes
pop_last(l, i) == SubSeq(l, 1, Len(l) - 1)

\* list.pop(i), i counted from 1

pop(l, i) == SubSeq(l, 1, i - 1) \o SubSeq(l, i + 1, Len(l))

\* the same loop run over the live list from its first entry on
RECURSIVE redact_cases_forward(_, _, _)
redact_cases_forward(enumerated, i, st) ==
    IF i = 0 \/ st.raised THEN st
    ELSE LET k == Len(enumerated) - i + 1
         IN IF k > Len(st.cases) THEN st
            ELSE IF ~st.cases[k].hidden
            THEN redact_cases_forward(enumerated, i - 1, st)
            ELSE redact_cases_forward(enumerated, i - 1,
                     [st EXCEPT !.cases = pop(st.cases, k),
                                !.points = IF st.points.kind = "list"
                                           THEN List(pop(st.points.value, k))
                                           ELSE st.points])

\* the same loop popping the case alone, test['points'] left as it was
RECURSIVE redact_cases_keeping_points(_, _, _)
redact_cases_keeping_points(enumerated, i, st) ==
    IF i = 0 \/ st.raised THEN st
    ELSE IF ~enumerated[i].hidden
    THEN redact_cases_keeping_points(enumerated, i - 1, st)
    ELSE redact_cases_keeping_points(enumerated, i - 1,
             [st EXCEPT !.cases = pop(st.cases, i)])

\* the inner loop over list(enumerate(suite['cases']))[::-1], from entry i of
\* the enumeration down; st holds suite['cases'], test['points'] and whether
\* a pop raised IndexError
RECURSIVE redact_cases(_, _, _)
redact_cases(enumerated, i, st) ==
    IF i = 0 \/ st.raised THEN st
    ELSE IF ~enumerated[i].hidden THEN redact_cases(enumerated, i - 1, st)
    ELSE LET cases == pop(st.cases, i)
         IN IF st.points.kind # "list"
            THEN redact_cases(enumerated, i - 1, [st EXCEPT !.cases = cases])
            ELSE IF i > Len(st.points.value)
            THEN [st EXCEPT !.cases = cases, !.raised = TRUE]
            ELSE redact_cases(enumerated, i - 1,
                     [st EXCEPT !.cases = cases,
                                !.points = List(pop(st.points.value, i))])

\* the loop over test['suites'], from suite k on
RECURSIVE redact_suites(_, _, _)
redact_suites(suites, k, points) ==
    IF k > Len(suites) THEN [raised |-> FALSE, suites |-> suites, points |-> points]
    ELSE LET st == redact_cases(suites[k].cases, Len(suites[k].cases),
                                [cases |-> suites[k].cases, points |-> points,
                                 raised |-> FALSE])
         IN IF st.raised
            THEN [raised |-> TRUE, suites |-> suites, points |-> points]
            ELSE redact_suites([suites EXCEPT ![k].cases = st.cases], k + 1, st.points)

\* whether the loop over the directory passes a file by
skipped(f) == (f.stem = "__init__" /\ f.suffix = ".py") \/ f.suffix # ".py"

\* the loop over test_dir.iterdir(), from file k on; an IndexError ends it
\* with the files before k rewritten and the others as they were
RECURSIVE remove_hidden_tests_from_dir(_, _, _)
remove_hidden_tests_from_dir(dir, k, written) ==
    IF k > Len(dir) THEN [raised |-> FALSE, dir |-> dir, written |-> written]
    ELSE IF skipped(dir[k]) THEN remove_hidden_tests_from_dir(dir, k + 1, written)
    ELSE LET test == exec_test(dir[k].text)
             r == redact_suites(test.suites, 1, test.points)
         IN IF r.raised
            THEN [raised |-> TRUE, dir |-> dir, written |-> written]
            ELSE remove_hidden_tests_from_dir(
                     [dir EXCEPT ![k].text =
                         write_test([test EXCEPT !.suites = r.suites, !.points = r.points])],
                     k + 1, written \cup {k})

----------------------------------------------------------------------------
(* Inputs of remove_hidden_tests_from_dir: directories of written tests    *)

MaxRuns == 2

RedactPool == {T_public, T_print, T_hidden}

\* the test gen_test_cell registers for question q1 with tests ts
registered(points, ts) ==
    gen_test_cell([name |-> "q1", points |-> points], ts, EmptyDict).tests_dict["q1"]

Artifacts ==
    UNION { { registered(Number(2), ts),
              registered(List([k \in 1..Len(ts) |-> 10 * k]), ts) } :
            ts \in SeqsUpTo(RedactPool, MaxTests) }

\* test files with two suites, as a hand-written test file may hold
TwoSuites(points) ==
    [name   |-> "q2",
     points |-> points,
     suites |-> << gen_suite(<<T_hidden, T_public>>).suite,
                   gen_suite(<<T_print, T_hidden>>).suite >>]

OtherArtifacts ==
    { TwoSuites(Number(4)), TwoSuites(List(<<10, 20>>)),
      [registered(Number(1), <<T_public, T_hidden>>) EXCEPT !.name = "q2"] }

InitFile  == [stem |-> "__init__", suffix |-> ".py", text |-> <<>>]
NotesFile == [stem |-> "notes", suffix |-> ".txt", text |-> <<>>]
TestFile(stem, test) == [stem |-> stem, suffix |-> ".py", text |-> write_test(test)]

\* iterdir() yields the entries in an order the file system chooses
Directories ==
    UNION { { <<InitFile, TestFile("q1", a), NotesFile, TestFile("q2", b)>>,
              <<TestFile("q2", b), NotesFile, TestFile("q1", a), InitFile>> } :
            a \in Artifacts, b \in OtherArtifacts }

RedactInit ==
    /\ test_dir \in Directories
    /\ runs = 0
    /\ run_log = <<>>

RedactIdle ==
    /\ test_dir = <<>>
    /\ runs = 0
    /\ run_log = <<>>

RemoveHidden ==
    /\ runs < MaxRuns
    /\ LET r == remove_hidden_tests_from_dir(test_dir, 1, {})
       IN /\ test_dir' = r.dir
          /\ run_log' = Append(run_log, [before  |-> test_dir,
                                         after   |-> r.dir,
                                         written |-> r.written,
                                         raised  |-> r.raised])
    /\ runs' = runs + 1
    /\ UNCHANGED <<dtVars, rtVars, genVars, gcVars, clVars, rnVars, baVars, paVars, gaVars, tgVars>>

----------------------------------------------------------------------------
(* otter/assign/tests.py: gen_case called on one Test, with its locals     *)

\* gen_case before any call
NoLocals == [status |-> "none", converted |-> <<>>, code_lines |-> <<>>,
             new_start_index |-> -1, case |-> NoCase]

\* what gen_case leaves: the lines str_to_doctest gave it, code_lines and
\* new_start_index as they are after the loop, and the case (or the exception)
gen_case_locals(test) ==
    LET r == str_to_doctest(split(test.input, "\n"), <<>>, <<>>)
        g == gen_case(test)
    IN IF r.raised THEN [NoLocals EXCEPT !.status = g.raised]
       ELSE [status          |-> IF g.raised = "" THEN "done" ELSE g.raised,
             converted       |-> r.lines,
             code_lines      |-> separated(r.lines),
             new_start_index |-> new_start(r.lines) - 1,
             case            |-> g.case]

----------------------------------------------------------------------------
(* Inputs of gen_case: Tests as read_test builds them                      *)

MaxCaseLines == 3

L_marked == <<"y"," ","="," ","2"," "," ","#"," ","E","N","D"," ","T","E","S","T"," ">>

CaseLines == {L_x1, L_if, L_body, L_bslash, L_empty, END, L_marked, R_points}

\* input is '\n'.join(source[1:]): empty for a cell of one line
CaseTests ==
    { [NoTest EXCEPT !.input = join("\n", ls), !.output = out, !.points = pts] :
        ls \in SeqsUpTo(CaseLines, MaxCaseLines),
        out \in {<<>>, <<"1", "\n">>},
        pts \in {None, Some(<<"3">>)} }

CaseInit ==
    /\ gc_test \in CaseTests
    /\ gc_result = NoLocals

CaseIdle ==
    /\ gc_test = NoTest
    /\ gc_result = [NoLocals EXCEPT !.status = "idle"]

GenCase ==
    /\ gc_result.status = "none"
    /\ gc_result' = gen_case_locals(gc_test)
    /\ UNCHANGED <<gc_test, dtVars, rtVars, genVars, rdVars, clVars, rnVars, baVars, paVars, gaVars, tgVars>>

----------------------------------------------------------------------------
(* otter/assign/tests.py: is_test_cell                                     *)

S_test       == <<"t","e","s","t">>
S_begin_test == <<"b","e","g","i","n"," ","t","e","s","t">>

\* "".join(parts)
RECURSIVE concat(_)
concat(parts) == IF Len(parts) = 0 THEN <<>> ELSE Head(parts) \o concat(Tail(parts))

\* a cell's source is a list of lines (kind "list", in lines) or one string
\* (kind "str", in text); get_source gives the lines
get_source(c) ==
    IF c.source.kind = "str" THEN split(c.source.text, "\n") ELSE c.source.lines

\* re.match(TEST_REGEX, line, flags=re.IGNORECASE): the test-marker grammar
\* ^\s*#\s*test | ^\s*"""?\s*test
match_test(line) ==
    LET l == lstrip(lower(line))
    IN \/ /\ startswith(l, <<"#">>)
          /\ startswith(lstrip(SubSeq(l, 2, Len(l))), S_test)
       \/ /\ startswith(l, <<"\"", "\"">>)
          /\ \/ startswith(lstrip(SubSeq(l, 3, Len(l))), S_test)
             \/ /\ startswith(l, <<"\"", "\"", "\"">>)
                /\ startswith(lstrip(SubSeq(l, 4, Len(l))), S_test)

\* re.match(TEST_META_REGEX, text, flags=re.IGNORECASE): the header of a
\* structured metadata block, ^\s*#\s*begin test
match_meta(text) ==
    LET t == lstrip(lower(text))
    IN /\ startswith(t, <<"#">>)
       /\ startswith(lstrip(SubSeq(t, 2, Len(t))), S_begin_test)

\* the truth value of what is_test_cell returns, with the second trigger
\* left out
is_test_cell_first_only(c) ==
    /\ c.cell_type = "code"
    /\ Len(get_source(c)) > 0
    /\ match_test(get_source(c)[1])

\* the truth value of what is_test_cell returns
is_test_cell(c) ==
    IF c.cell_type # "code" THEN FALSE
    ELSE LET source == get_source(c)
         IN /\ Len(source) > 0
            /\ \/ match_test(source[1])
               \/ match_meta(concat(source))

----------------------------------------------------------------------------
(* Inputs of is_test_cell: notebook cells                                  *)

MaxSource == 2

N_test   == <<" "," ","#","t","e","s","t">>
N_quotes == <<"\"","\"","\""," ","T","E","S","T">>
N_begin  == <<"#"," ","b","e","g","i","n"," ","T","E","S","T">>
N_text   == <<"#"," ","a"," ","t","e","s","t">>

SourceLines == {R_test, N_test, N_quotes, BEGIN, N_begin, N_text, R_assert, R_blank, L_empty}

CellTypes == {"code", "markdown", "raw"}

NotebookCells ==
    { [cell_type |-> t, source |-> [kind |-> "list", lines |-> ls, text |-> <<>>]] :
        t \in CellTypes, ls \in SeqsUpTo(SourceLines, MaxSource) }
      \cup
    { [cell_type |-> t, source |-> [kind |-> "str", lines |-> <<>>, text |-> join("\n", ls)]] :
        t \in CellTypes, ls \in SeqsUpTo(SourceLines, MaxSource) }

ClassifyInit ==
    /\ nb_cell \in NotebookCells
    /\ is_test = "none"

ClassifyIdle ==
    /\ nb_cell = [cell_type |-> "", source |-> [kind |-> "list", lines |-> <<>>, text |-> <<>>]]
    /\ is_test = "idle"

IsTestCell ==
    /\ is_test = "none"
    /\ is_test' = IF is_test_cell(nb_cell) THEN "test" ELSE "other"
    /\ UNCHANGED <<nb_cell, dtVars, rtVars, genVars, rdVars, gcVars, rnVars, baVars, paVars, gaVars, tgVars>>

----------------------------------------------------------------------------
(* otter/assign/utils.py: run_tests                                        *)

\* the prefix of one line of textwrap.indent: lines of whitespace only are
\* left as they are
indent_line(line, prefix) ==
    IF Len(strip(line)) > 0 THEN prefix \o line ELSE line

RECURSIVE indent_lines(_, _)
indent_lines(lines, prefix) ==
    IF Len(lines) = 0 THEN <<>>
    ELSE <<indent_line(Head(lines), prefix)>> \o indent_lines(Tail(lines), prefix)

\* textwrap.indent(text, prefix)
indent(text, prefix) == join("\n", indent_lines(split(text, "\n"), prefix))

NoRunMessage == [head |-> "", summary |-> <<>>]

\* run_tests with the check for a perfect score taken as total < possible
run_tests_below(res, debug) ==
    IF res.raised
    THEN [status |-> "GradingError", message |-> NoRunMessage]
    ELSE IF res.total < res.possible
    THEN [status  |-> "RuntimeError",
          message |-> [head    |-> "Some autograder tests failed in the autograder notebook:\n",
                       summary |-> indent(res.summary, <<" ", " ", " ", " ">>)]]
    ELSE [status |-> "returned", message |-> NoRunMessage]

\* res is what grade_submission gave (or that it raised); the outcome of
\* run_tests is its return, its RuntimeError or the exception of the grader
run_tests(res, debug) ==
    IF res.raised
    THEN [status |-> "GradingError", message |-> NoRunMessage]
    ELSE IF res.total # res.possible
    THEN [status  |-> "RuntimeError",
          message |-> [head    |-> "Some autograder tests failed in the autograder notebook:\n",
                       summary |-> indent(res.summary, <<" ", " ", " ", " ">>)]]
    ELSE [status |-> "returned", message |-> NoRunMessage]

----------------------------------------------------------------------------
(* Inputs of run_tests: grading results                                    *)

MaxPoints == 3

Summaries == { <<"q","1">>, <<"q","1","\n","\n"," ","\n","q","2","\n">> }

NoResults == [raised |-> FALSE, total |-> 0, possible |-> 0, summary |-> <<>>, debug |-> FALSE]

GradingResults ==
    { [raised |-> FALSE, total |-> t, possible |-> p, summary |-> s, debug |-> d] :
        t \in 0..MaxPoints, p \in 0..MaxPoints, s \in Summaries, d \in BOOLEAN }
      \cup { [NoResults EXCEPT !.raised = TRUE, !.debug = d] : d \in BOOLEAN }

RunInit ==
    /\ rn_results \in GradingResults
    /\ rn_result = [status |-> "none", message |-> NoRunMessage]

RunIdle ==
    /\ rn_results = NoResults
    /\ rn_result = [status |-> "idle", message |-> NoRunMessage]

RunTests ==
    /\ rn_result.status = "none"
    /\ rn_result' = run_tests(rn_results, rn_results.debug)
    /\ UNCHANGED <<rn_results, dtVars, rtVars, genVars, rdVars, gcVars, clVars, baVars, paVars, gaVars, tgVars>>

----------------------------------------------------------------------------
(* otter/containers.py: grade_assignments                                  *)

\* what subprocess.run(command, stdout=PIPE, stderr=PIPE) can do: return with
\* exit status 0 and nothing on stderr, return with a non-zero exit status
\* and text on stderr, return with a non-zero exit status and an empty
\* stderr, or never return (there is no timeout argument)
Outcomes == {"ok", "error", "silent", "hang"}

\* the steps of grade_assignments in the order it runs them; read_csv is the
\* call of pd.read_csv, the others are the subprocess.run calls, named by the
\* variable that holds the completed process (copy_pdf is assigned to copy)
Steps == <<"launch", "copy", "tests", "requirements", "install", "grade", "csv",
           "read_csv", "mkdir_pdf", "copy_pdf", "csv_cleanup", "stop", "remove">>

\* the docker commands that act on the launched container while it runs
OnContainer == {"copy", "tests", "requirements", "install", "grade", "csv",
                "copy_pdf", "stop"}

\* the commands of a worker: launch, copy-in, install, grade, copy-out, stop, remove
WorkerCommands == OnContainer \cup {"launch", "remove"}

\* all_commands, with requirements and install only when they are bound
all_commands(reqs) ==
    {"launch", "copy", "tests", "grade", "csv", "csv_cleanup", "stop", "remove"}
        \cup (IF reqs THEN {"requirements", "install"} ELSE {})

\* the locals of a worker and the container it launched: container is none,
\* running, stopped or removed; graded: grades.csv exists in the container;
\* csv_file: ./grades<id>.csv exists; stderr: the variables whose completed
\* process has text on stderr; failed: some command of the worker failed;
\* cleanup: the stop and remove commands have been run
NewWorker ==
    [status |-> "run", exc |-> "", container |-> "none", graded |-> FALSE,
     csv_file |-> FALSE, stderr |-> {}, failed |-> FALSE, cleanup |-> FALSE]

\* whether the step runs at all: the worker has not raised or hung, and the
\* branch of the step is taken
runs_step(step, st, reqs, pdfs) ==
    /\ st.status = "run"
    /\ step \in {"requirements", "install"} => reqs
    /\ step \in {"mkdir_pdf", "copy_pdf"} => pdfs

\* the outcomes the environment allows: docker refuses a command on a
\* container that does not run, copies no grades.csv that was never written,
\* and removes only a stopped container
possible(step, st) ==
    IF step \in OnContainer /\ st.container # "running" THEN {"error"}
    ELSE IF step = "csv" /\ ~st.graded THEN {"error"}
    ELSE IF step = "remove" /\ st.container # "stopped" THEN {"error"}
    ELSE Outcomes

\* the variable the completed process is assigned to
variable_of(step) == IF step = "copy_pdf" THEN "copy" ELSE step

\* one step with outcome o
step_of(step, st, o) ==
    IF step = "read_csv"
    THEN IF st.csv_file THEN st
         ELSE [st EXCEPT !.status = "raised", !.exc = "FileNotFoundError"]
    ELSE IF o = "hang" THEN [st EXCEPT !.status = "hung"]
    ELSE LET v == variable_of(step)
             done == [st EXCEPT
                        !.stderr = IF o = "error" THEN @ \cup {v} ELSE @ \ {v},
                        !.failed = @ \/ (o # "ok" /\ step \in WorkerCommands),
                        !.cleanup = @ \/ step = "remove"]
         IN IF o # "ok" THEN done
            ELSE IF step = "launch" THEN [done EXCEPT !.container = "running"]
            ELSE IF step = "grade" THEN [done EXCEPT !.graded = TRUE]
            ELSE IF step = "csv" THEN [done EXCEPT !.csv_file = TRUE]
            ELSE IF step = "csv_cleanup" THEN [done EXCEPT !.csv_file = FALSE]
            ELSE IF step = "stop" THEN [done EXCEPT !.container = "stopped"]
            ELSE IF step = "remove" THEN [done EXCEPT !.container = "removed"]
            ELSE done

\* every state a worker can be in after step k, from the states S before it
RECURSIVE run_steps(_, _, _, _)
run_steps(k, S, reqs, pdfs) ==
    IF k > Len(Steps) THEN S
    ELSE LET step == Steps[k]
             after(st) ==
                 IF ~runs_step(step, st, reqs, pdfs) THEN {st}
                 ELSE IF step = "read_csv" THEN {step_of(step, st, "ok")}
                 ELSE {step_of(step, st, o) : o \in possible(step, st)}
         IN run_steps(k + 1, UNION {after(st) : st \in S}, reqs, pdfs)

\* the loop over all_commands: the first with text on stderr raises
check_commands(st, reqs) ==
    IF st.status # "run" THEN st
    ELSE IF st.stderr \cap all_commands(reqs) # {}
    THEN [st EXCEPT !.status = "raised", !.exc = "Exception"]
    ELSE [st EXCEPT !.status = "returned"]

\* how a worker ends (or hangs), and the container it leaves
worker_end(st) ==
    [status |-> st.status, exc |-> st.exc, container |-> st.container,
     failed |-> st.failed, cleanup |-> st.cleanup]

\* every way grade_assignments can end
grade_assignments(reqs, pdfs) ==
    {worker_end(check_commands(st, reqs)) : st \in run_steps(1, {NewWorker}, reqs, pdfs)}

----------------------------------------------------------------------------
(* otter/containers.py: launch_parallel_containers                         *)

MaxContainers == 2

WorkerIds == 0..(MaxContainers - 1)

\* the ways a worker can end, for each value of reqs and of the pdf flags
WorkerEnds ==
    << grade_assignments(FALSE, FALSE), grade_assignments(FALSE, TRUE),
       grade_assignments(TRUE, FALSE), grade_assignments(TRUE, TRUE) >>

worker_ends(reqs, pdfs) ==
    WorkerEnds[(IF reqs THEN 2 ELSE 0) + (IF pdfs THEN 1 ELSE 0) + 1]

\* a future: not submitted, pending, or as its worker ended
NoWorker == [status |-> "none", exc |-> "", container |-> "none", failed |-> FALSE,
             cleanup |-> FALSE]
Pending  == [NoWorker EXCEPT !.status = "pending"]

completed(w) == w.status \in {"returned", "raised"}

BatchInit ==
    /\ batch \in [pc : {"start"}, num_containers : 1..MaxContainers,
                  reqs : BOOLEAN, pdfs : BOOLEAN, tmp_dirs : {{}}, exc : {""}]
    /\ workers = [i \in WorkerIds |-> NoWorker]

BatchIdle ==
    /\ batch = [pc |-> "idle", num_containers |-> 0, reqs |-> FALSE, pdfs |-> FALSE,
                tmp_dirs |-> {}, exc |-> ""]
    /\ workers = [i \in WorkerIds |-> NoWorker]

\* the tmp directories are made and one worker per directory is submitted
Launch ==
    /\ batch.pc = "start"
    /\ batch' = [batch EXCEPT !.pc = "waiting",
                              !.tmp_dirs = 0..(batch.num_containers - 1)]
    /\ workers' = [i \in WorkerIds |->
                     IF i < batch.num_containers THEN Pending ELSE NoWorker]
    /\ UNCHANGED <<dtVars, rtVars, genVars, rdVars, gcVars, clVars, rnVars, paVars, gaVars, tgVars>>

\* worker i runs grade_assignments in its thread: it returns, raises or hangs
GradeAssignments(i) ==
    /\ batch.pc = "waiting"
    /\ workers[i].status = "pending"
    /\ \E w \in worker_ends(batch.reqs, batch.pdfs) :
          workers' = [workers EXCEPT ![i] = w]
    /\ UNCHANGED <<batch, dtVars, rtVars, genVars, rdVars, gcVars, clVars, rnVars, paVars, gaVars, tgVars>>

\* wait(futures, return_when=FIRST_COMPLETED): one done future is enough
wait_first_completed(ws, n) == \E i \in WorkerIds : i < n /\ completed(ws[i])

\* wait(futures) returns once every one of the n futures is done
wait(ws, n) == \A i \in WorkerIds : i < n => completed(ws[i])

\* the main thread blocks in wait(futures) until it returns
Wait ==
    /\ batch.pc = "waiting"
    /\ wait(workers, batch.num_containers)
    /\ batch' = [batch EXCEPT !.pc = "cleaning"]
    /\ UNCHANGED <<workers, dtVars, rtVars, genVars, rdVars, gcVars, clVars, rnVars, paVars, gaVars, tgVars>>

\* the loop over range(num_containers): rmtree of the next tmp directory
Rmtree ==
    /\ batch.pc = "cleaning"
    /\ batch.tmp_dirs # {}
    /\ LET i == CHOOSE d \in batch.tmp_dirs : \A e \in batch.tmp_dirs : d <= e
       IN batch' = [batch EXCEPT !.tmp_dirs = batch.tmp_dirs \ {i}]
    /\ UNCHANGED <<workers, dtVars, rtVars, genVars, rdVars, gcVars, clVars, rnVars, paVars, gaVars, tgVars>>

\* the results are collected after the loop: result() of a worker that
\* raised raises its exception again, in the order of the set of done futures
Collect ==
    /\ batch.pc = "cleaning"
    /\ batch.tmp_dirs = {}
    /\ LET raised == {i \in WorkerIds : workers[i].status = "raised"}
       IN IF raised = {}
          THEN batch' = [batch EXCEPT !.pc = "returned"]
          ELSE \E i \in raised :
                  batch' = [batch EXCEPT !.pc = "raised", !.exc = workers[i].exc]
    /\ UNCHANGED <<workers, dtVars, rtVars, genVars, rdVars, gcVars, clVars, rnVars, paVars, gaVars, tgVars>>

NextBatch ==
    \/ Launch
    \/ \E i \in WorkerIds : GradeAssignments(i)
    \/ Wait
    \/ Rmtree
    \/ Collect

----------------------------------------------------------------------------
(* otter/containers.py: launch_parallel_containers, the tmp directories    *)

\* num_containers when the caller gives none
DefaultContainers == 4

EXT_IPYNB == <<".","i","p","y","n","b">>
EXT_PY    == <<".","p","y">>

\* (".py", ".ipynb")[not scripts]
file_extension(scripts) == IF scripts THEN EXT_PY ELSE EXT_IPYNB

\* os.path.isfile(...) and f.endswith(file_extension)
is_notebook(f, scripts) == f.isfile /\ endswith(f.name, file_extension(scripts))

\* os.path.isfile(...) and not file.endswith(file_extension)
is_other_file(f, scripts) == f.isfile /\ ~endswith(f.name, file_extension(scripts))

\* the list comprehension over os.listdir(dir_path), from entry k on
RECURSIVE list_notebooks(_, _, _)
list_notebooks(listing, scripts, k) ==
    IF k > Len(listing) THEN <<>>
    ELSE IF is_notebook(listing[k], scripts)
    THEN <<listing[k].name>> \o list_notebooks(listing, scripts, k + 1)
    ELSE list_notebooks(listing, scripts, k + 1)

\* every notebook goes to tmp0
tmp_index_first(k, num_containers) == 0

\* "tmp{}".format(k % num_containers)
tmp_index(k, num_containers) == k % num_containers

\* the loop over enumerate(notebooks), from index k (counted from 0) on;
\* tmp maps the number of a tmp directory to the names of the files in it
RECURSIVE copy_notebooks(_, _, _, _)
copy_notebooks(notebooks, num_containers, k, tmp) ==
    IF k >= Len(notebooks) THEN tmp
    ELSE LET i == tmp_index(k, num_containers)
         IN copy_notebooks(notebooks, num_containers, k + 1,
                           [tmp EXCEPT ![i] = tmp[i] \cup {notebooks[k + 1]}])

----------------------------------------------------------------------------
(* Inputs of launch_parallel_containers: the notebooks directory           *)

MaxFiles == 3

F_a    == [name |-> <<"a">> \o EXT_IPYNB, isfile |-> TRUE]
F_b    == [name |-> <<"b">> \o EXT_IPYNB, isfile |-> TRUE]
F_c    == [name |-> <<"c">> \o EXT_IPYNB, isfile |-> TRUE]
F_s    == [name |-> <<"s">> \o EXT_PY, isfile |-> TRUE]
F_data == [name |-> <<"d",".","c","s","v">>, isfile |-> TRUE]
\* a directory whose name ends like a notebook's
F_dir  == [name |-> <<"o","l","d">> \o EXT_IPYNB, isfile |-> FALSE]

DirEntries == {F_a, F_b, F_c, F_s, F_data, F_dir}

\* os.listdir gives the entries in an order the file system chooses; the
\* names of one directory are distinct
Listings ==
    {l \in SeqsUpTo(DirEntries, MaxFiles) :
        \A i, j \in 1..Len(l) : i # j => l[i] # l[j]}

NoTmp == [i \in 0..(DefaultContainers + MaxContainers) |-> {}]

\* num_containers 0 stands for the default None
PartitionInit ==
    partition \in [pc : {"start"}, listing : Listings, scripts : BOOLEAN,
                   given : 0..MaxContainers, num_containers : {0},
                   notebooks : {<<>>}, tmp_dirs : {{}}, tmp : {NoTmp}]

PartitionIdle ==
    partition = [pc |-> "idle", listing |-> <<>>, scripts |-> FALSE, given |-> 0,
                 num_containers |-> 0, notebooks |-> <<>>, tmp_dirs |-> {}, tmp |-> NoTmp]

\* the default is taken and the notebooks of the directory are listed
ListNotebooks ==
    /\ partition.pc = "start"
    /\ partition' = [partition EXCEPT
            !.pc = "listed",
            !.num_containers = IF partition.given = 0 THEN DefaultContainers
                               ELSE partition.given,
            !.notebooks = list_notebooks(partition.listing, partition.scripts, 1)]
    /\ UNCHANGED <<dtVars, rtVars, genVars, rdVars, gcVars, clVars, rnVars, baVars,
                   gaVars, tgVars>>

\* every tmp directory is made and given a copy of every file of the
\* directory that is not a notebook
MakeTmpDirs ==
    /\ partition.pc = "listed"
    /\ LET others == {partition.listing[k].name : k \in
                        {j \in 1..Len(partition.listing) :
                            is_other_file(partition.listing[j], partition.scripts)}}
       IN partition' = [partition EXCEPT
              !.pc = "made",
              !.tmp_dirs = 0..(partition.num_containers - 1),
              !.tmp = [i \in DOMAIN NoTmp |->
                         IF i < partition.num_containers THEN others ELSE {}]]
    /\ UNCHANGED <<dtVars, rtVars, genVars, rdVars, gcVars, clVars, rnVars, baVars,
                   gaVars, tgVars>>

\* the notebooks are copied into the tmp directories
CopyNotebooks ==
    /\ partition.pc = "made"
    /\ partition' = [partition EXCEPT
            !.pc = "copied",
            !.tmp = copy_notebooks(partition.notebooks, partition.num_containers,
                                   0, partition.tmp)]
    /\ UNCHANGED <<dtVars, rtVars, genVars, rdVars, gcVars, clVars, rnVars, baVars,
                   gaVars, tgVars>>

NextPartition == ListNotebooks \/ MakeTmpDirs \/ CopyNotebooks

----------------------------------------------------------------------------
(* otter/assign/utils.py: run_generate_autograder                          *)

\* the two directories the call moves between: the one it is called in and
\* assignment.get_ag_path()
CurrDir == "curr_dir"
AgPath  == "ag_path"

\* the loop over assignment.autograder_files, run in curr_dir, from file k
\* on: a directory is copied whole, a file must lie under the cwd
RECURSIVE copy_files(_, _, _)
copy_files(files, k, copied) ==
    IF k > Len(files) THEN [raised |-> "", copied |-> copied]
    ELSE IF files[k] = "dir" THEN copy_files(files, k + 1, copied + 1)
    ELSE IF files[k] = "outside"
    THEN [raised |-> "AssertionError", copied |-> copied]
    ELSE copy_files(files, k + 1, copied + 1)

\* what a call leaves: how it ended, the cwd, the tests_dir and the config
\* it handed to generate_autograder, the files it copied, the directory
\* otter_config.json was written in, whether the temp tests dir was removed
NoCall == [status |-> "none", cwd |-> CurrDir, tests_dir |-> "", config |-> FALSE,
           copied |-> 0, config_in |-> "", temp_removed |-> FALSE]

run_generate_autograder(a) ==
    LET entered  == [NoCall EXCEPT !.cwd = AgPath]
        tests_dir == IF a.is_python /\ ~a.tests_files THEN "temp" ELSE "tests"
        c        == copy_files(a.autograder_files, 1, 0)
        copying  == Len(a.autograder_files) > 0
        ready    == [entered EXCEPT
                        !.tests_dir = tests_dir,
                        !.copied = IF copying THEN c.copied ELSE 0,
                        !.config = a.otter_config,
                        !.config_in = IF a.otter_config THEN AgPath ELSE ""]
    IN IF a.is_python /\ ~a.tests_files /\ ~a.temp_test_dir
       THEN [entered EXCEPT !.status = "RuntimeError"]
       ELSE IF copying /\ c.raised # ""
       THEN [entered EXCEPT !.status = c.raised, !.cwd = CurrDir,
                            !.tests_dir = tests_dir, !.copied = c.copied]
       ELSE IF a.generate = "raise"
       THEN [ready EXCEPT !.status = "Exception"]
       ELSE [ready EXCEPT !.status = "returned",
                          !.temp_removed = a.temp_test_dir,
                          !.cwd = CurrDir]

----------------------------------------------------------------------------
(* Inputs of run_generate_autograder: the assignment configurations        *)

MaxAgFiles == 2

\* an entry of autograder_files: a directory, a file under the master
\* notebook's directory, or a file outside it
AgFileKinds == {"dir", "file", "outside"}

Assignments ==
    [is_python : BOOLEAN, tests_files : BOOLEAN, temp_test_dir : BOOLEAN,
     autograder_files : SeqsUpTo(AgFileKinds, MaxAgFiles),
     otter_config : BOOLEAN, generate : {"ok", "raise"}]

NoAssignment ==
    [is_python |-> FALSE, tests_files |-> FALSE, temp_test_dir |-> FALSE,
     autograder_files |-> <<>>, otter_config |-> FALSE, generate |-> "ok"]

GenerateInit ==
    \E a \in Assignments : generate = [assignment |-> a, call |-> NoCall]

GenerateIdle ==
    generate = [assignment |-> NoAssignment, call |-> [NoCall EXCEPT !.status = "idle"]]

RunGenerateAutograder ==
    /\ generate.call.status = "none"
    /\ generate' = [generate EXCEPT !.call = run_generate_autograder(generate.assignment)]
    /\ UNCHANGED <<dtVars, rtVars, genVars, rdVars, gcVars, clVars, rnVars, baVars,
                   paVars, tgVars>>

----------------------------------------------------------------------------
(* otter/assign/utils.py: add_tag, has_tag, remove_tag                     *)

\* cell["metadata"]: whether it has the key "tags", and the list under it
NoTags == [has_key |-> FALSE, tags |-> <<>>]

\* list.remove(x): the first occurrence of x is taken out
RECURSIVE list_remove(_, _)
list_remove(l, x) ==
    IF Len(l) = 0 THEN l
    ELSE IF Head(l) = x THEN Tail(l)
    ELSE <<Head(l)>> \o list_remove(Tail(l), x)

\* x in l
in_list(x, l) == \E k \in 1..Len(l) : l[k] = x

\* add_tag works on a deep copy: given is the caller's cell after the call,
\* result the cell returned
add_tag(c, tag) ==
    LET copy == IF c.has_key THEN c ELSE [has_key |-> TRUE, tags |-> <<>>]
    IN [given |-> c, result |-> [copy EXCEPT !.tags = Append(copy.tags, tag)]]

\* tag in cell["metadata"].get("tags", [])
has_tag(c, tag) == in_list(tag, IF c.has_key THEN c.tags ELSE <<>>)

remove_tag(c, tag) ==
    IF ~c.has_key \/ ~in_list(tag, c.tags) THEN [given |-> c, result |-> c]
    ELSE [given |-> c, result |-> [c EXCEPT !.tags = list_remove(c.tags, tag)]]

----------------------------------------------------------------------------
(* Inputs of add_tag and remove_tag: sequences of calls on a new cell      *)

MaxCalls == 4

Tags == {"a", "b"}

NoTagCall == [op |-> "none", tag |-> "", given |-> NoTags, given_after |-> NoTags,
              result |-> NoTags, n |-> 0]

\* a new code cell has no "tags" in its metadata
TagInit ==
    /\ tag_cell = NoTags
    /\ tag_call = NoTagCall

TagIdle ==
    /\ tag_cell = NoTags
    /\ tag_call = [NoTagCall EXCEPT !.op = "idle"]

\* cell = add_tag(cell, t)
AddTag(t) ==
    /\ tag_call.op # "idle"
    /\ tag_call.n < MaxCalls
    /\ LET r == add_tag(tag_cell, t)
       IN /\ tag_cell' = r.result
          /\ tag_call' = [op |-> "add_tag", tag |-> t, given |-> tag_cell,
                          given_after |-> r.given, result |-> r.result,
                          n |-> tag_call.n + 1]
    /\ UNCHANGED <<dtVars, rtVars, genVars, rdVars, gcVars, clVars, rnVars, baVars,
                   paVars, gaVars>>

\* cell = remove_tag(cell, t)
RemoveTag(t) ==
    /\ tag_call.op # "idle"
    /\ tag_call.n < MaxCalls
    /\ LET r == remove_tag(tag_cell, t)
       IN /\ tag_cell' = r.result
          /\ tag_call' = [op |-> "remove_tag", tag |-> t, given |-> tag_cell,
                          given_after |-> r.given, result |-> r.result,
                          n |-> tag_call.n + 1]
    /\ UNCHANGED <<dtVars, rtVars, genVars, rdVars, gcVars, clVars, rnVars, baVars,
                   paVars, gaVars>>

NextTags == (\E t \in Tags : AddTag(t)) \/ (\E t \in Tags : RemoveTag(t))

----------------------------------------------------------------------------
(* Specifications: one per entry point                                     *)

InitDoctest ==
    /\ DoctestInit /\ ReadIdle /\ GenIdle /\ RedactIdle
    /\ CaseIdle /\ ClassifyIdle /\ RunIdle /\ BatchIdle
    /\ PartitionIdle /\ GenerateIdle /\ TagIdle
SpecDoctest == InitDoctest /\ [][Convert]_vars

InitRead ==
    /\ ReadInit /\ DoctestIdle /\ GenIdle /\ RedactIdle
    /\ CaseIdle /\ ClassifyIdle /\ RunIdle /\ BatchIdle
    /\ PartitionIdle /\ GenerateIdle /\ TagIdle
SpecRead == InitRead /\ [][ReadTest]_vars

InitGen ==
    /\ GenInit /\ DoctestIdle /\ ReadIdle /\ RedactIdle
    /\ CaseIdle /\ ClassifyIdle /\ RunIdle /\ BatchIdle
    /\ PartitionIdle /\ GenerateIdle /\ TagIdle
SpecGen == InitGen /\ [][GenTestCell]_vars

InitRedact ==
    /\ RedactInit /\ DoctestIdle /\ ReadIdle /\ GenIdle
    /\ CaseIdle /\ ClassifyIdle /\ RunIdle /\ BatchIdle
    /\ PartitionIdle /\ GenerateIdle /\ TagIdle
SpecRedact == InitRedact /\ [][RemoveHidden]_vars

InitCase ==
    /\ CaseInit /\ DoctestIdle /\ ReadIdle /\ GenIdle /\ RedactIdle
    /\ ClassifyIdle /\ RunIdle /\ BatchIdle /\ PartitionIdle /\ GenerateIdle /\ TagIdle
SpecCase == InitCase /\ [][GenCase]_vars

InitClassify ==
    /\ ClassifyInit /\ DoctestIdle /\ ReadIdle /\ GenIdle /\ RedactIdle
    /\ CaseIdle /\ RunIdle /\ BatchIdle /\ PartitionIdle /\ GenerateIdle /\ TagIdle
SpecClassify == InitClassify /\ [][IsTestCell]_vars

InitRun ==
    /\ RunInit /\ DoctestIdle /\ ReadIdle /\ GenIdle /\ RedactIdle
    /\ CaseIdle /\ ClassifyIdle /\ BatchIdle /\ PartitionIdle /\ GenerateIdle /\ TagIdle
SpecRun == InitRun /\ [][RunTests]_vars

InitBatch ==
    /\ BatchInit /\ DoctestIdle /\ ReadIdle /\ GenIdle /\ RedactIdle
    /\ CaseIdle /\ ClassifyIdle /\ RunIdle /\ PartitionIdle /\ GenerateIdle /\ TagIdle
SpecBatch == InitBatch /\ [][NextBatch]_vars

\* the thread pool runs every submitted worker, and the caller goes on once
\* wait(futures) can return
SpecBatchFair == SpecBatch /\ WF_vars(NextBatch)

InitPartition ==
    /\ PartitionInit /\ DoctestIdle /\ ReadIdle /\ GenIdle /\ RedactIdle
    /\ CaseIdle /\ ClassifyIdle /\ RunIdle /\ BatchIdle /\ GenerateIdle /\ TagIdle
SpecPartition == InitPartition /\ [][NextPartition]_vars

InitGenerate ==
    /\ GenerateInit /\ DoctestIdle /\ ReadIdle /\ GenIdle /\ RedactIdle
    /\ CaseIdle /\ ClassifyIdle /\ RunIdle /\ BatchIdle /\ PartitionIdle /\ TagIdle
SpecGenerate == InitGenerate /\ [][RunGenerateAutograder]_vars

InitTags ==
    /\ TagInit /\ DoctestIdle /\ ReadIdle /\ GenIdle /\ RedactIdle
    /\ CaseIdle /\ ClassifyIdle /\ RunIdle /\ BatchIdle /\ PartitionIdle /\ GenerateIdle
SpecTags == InitTags /\ [][NextTags]_vars

----------------------------------------------------------------------------
(* Claims about str_to_doctest (SpecDoctest)                               *)

CountIn(line, S) == Cardinality({j \in 1..Len(line) : line[j] \in S})

\* opening minus closing brackets in the first i lines
RECURSIVE NetDepth(_, _)
NetDepth(ls, i) ==
    IF i = 0 THEN 0
    ELSE NetDepth(ls, i - 1) + CountIn(ls[i], OpenBrackets) - CountIn(ls[i], CloseBrackets)

RECURSIVE Flatten(_)
Flatten(ls) == IF Len(ls) = 0 THEN <<>> ELSE Head(ls) \o Flatten(Tail(ls))

\* no closing bracket occurs while the bracket stack is empty
NoUnderflow(ls) ==
    LET chars == Flatten(ls)
    IN \A n \in 1..Len(chars) :
          CountIn(SubSeq(chars, 1, n), CloseBrackets)
              <= CountIn(SubSeq(chars, 1, n), OpenBrackets)

BracketExample == <<L_open, L_one, L_close>>
SimpleExample  == <<L_x1, L_y2>>
IfExample      == <<L_if, L_body>>

\* C3: a converted line carries the continuation marker exactly when it starts
\* with a space or tab, or opens an except/elif/else/finally clause, or the line
\* emitted before it ends (stripped) with a backslash, or a bracket opened on an
\* earlier line is still open; every other line carries the primary prompt. The
\* lines "x = (", "1,", "2)" give a prompt line and two continuation lines.
C3_ContinuationRule ==
    dt_result.status = "done" =>
        /\ \A i \in 1..Len(dt_result.lines) :
              LET line == code_lines[i]
                  continuation ==
                      \/ Len(line) > 0 /\ line[1] \in {" ", "\t"}
                      \/ clause_opener(line)
                      \/ /\ i > 1
                         /\ LET before == strip(dt_result.lines[i - 1])
                            IN Len(before) > 0 /\ before[Len(before)] = "\\"
                      \/ NetDepth(code_lines, i - 1) > 0
              IN dt_result.lines[i] = (IF continuation THEN CONT ELSE PROMPT) \o line
        /\ code_lines = BracketExample =>
              dt_result.lines = <<PROMPT \o L_open, CONT \o L_one, CONT \o L_close>>

C3_Witness ==
    /\ code_lines = BracketExample
    /\ dt_result.status = "done"
    /\ dt_result.lines[2] = CONT \o L_one
    /\ dt_result.lines[3] = CONT \o L_close

\* C4: when no closing bracket meets an empty bracket stack, the conversion
\* returns one output line per input line, in input order, each the input line
\* behind exactly one of the two prompts; "x = 1", "y = 2" give ">>> x = 1",
\* ">>> y = 2".
C4_OneLinePerInput ==
    (dt_result.status # "none" /\ NoUnderflow(code_lines)) =>
        /\ dt_result.status = "done"
        /\ Len(dt_result.lines) = Len(code_lines)
        /\ \A i \in 1..Len(code_lines) :
              dt_result.lines[i] \in {PROMPT \o code_lines[i], CONT \o code_lines[i]}
        /\ code_lines = SimpleExample =>
              dt_result.lines = <<PROMPT \o L_x1, PROMPT \o L_y2>>

C4_Witness ==
    /\ code_lines = SimpleExample
    /\ dt_result.status = "done"
    /\ dt_result.lines = <<PROMPT \o L_x1, PROMPT \o L_y2>>

\* C5 as stated: "if x:", "    y = 1" give ">>> if x:", "... y = 1", the body
\* line reduced to its statement text.
C5_Original ==
    (code_lines = IfExample /\ dt_result.status = "done") =>
        dt_result.lines = <<PROMPT \o L_if, CONT \o <<"y", " ", "=", " ", "1">> >>

\* C5 as amended: "if x:", "    y = 1" give ">>> if x:", "...     y = 1"; every
\* line that starts with a space or tab is emitted as the continuation marker
\* followed by the whole line, its indentation kept.
C5_IndentationKept ==
    dt_result.status = "done" =>
        /\ code_lines = IfExample =>
              dt_result.lines = <<PROMPT \o L_if, CONT \o L_body>>
        /\ \A i \in 1..Len(dt_result.lines) :
              (Len(code_lines[i]) > 0 /\ code_lines[i][1] \in {" ", "\t"}) =>
                  dt_result.lines[i] = CONT \o code_lines[i]

C5_Witness ==
    /\ code_lines = IfExample
    /\ dt_result.status = "done"
    /\ dt_result.lines[2] = <<".", ".", ".", " ", " ", " ", " ", " ", "y", " ", "=", " ", "1">>

\* C24: str_to_doctest returns without raising for every list of lines, also
\* when a line holds a closing bracket while the bracket stack is empty: the
\* stack depth never goes below zero.
C24_NeverRaises ==
    dt_result.status \notin {"none", "idle"} =>
        /\ dt_result.status = "done"
        /\ Len(dt_result.lines) = Len(code_lines)

----------------------------------------------------------------------------
(* Claims about read_test (SpecRead)                                       *)

EndsBlock(line)   == endswith(rstrip(line), END)
BeginsBlock(line) == ~EndsBlock(line) /\ endswith(rstrip(line), BEGIN)

KeyLine(line, key) ==
    ~EndsBlock(line) /\ ~BeginsBlock(line) /\ startswith(rstrip(line), key)

\* the lines read as metadata: none unless the first line begins the block,
\* else the lines after it up to the first line that ends the block
MetadataLines(source) ==
    IF ~BeginsBlock(source[1]) THEN {}
    ELSE {k \in 2..Len(source) : \A j \in 2..k : ~EndsBlock(source[j])}

\* the value the last line with this key gives, None without such a line
LastValue(source, key) ==
    LET K == {k \in MetadataLines(source) : KeyLine(source[k], key)}
    IN IF K = {} THEN None
       ELSE Some(key_value(source[CHOOSE k \in K : \A j \in K : j <= k]))

Malformed(line) ==
    /\ Len(strip(line)) > 0
    /\ ~contains(line, <<":">>)
    /\ ~EndsBlock(line) /\ ~BeginsBlock(line)
    /\ \A key \in {S_points, S_hidden, S_success, S_failure} : ~startswith(rstrip(line), key)

HasMalformedLine(source) ==
    \E b \in 1..Len(source), k \in 1..Len(source) :
        /\ b < k
        /\ BeginsBlock(source[b])
        /\ \A j \in (b + 1)..(k - 1) : ~EndsBlock(source[j])
        /\ Malformed(source[k])

\* C2: read_test raises for every cell whose BEGIN TEST block holds, before
\* its END TEST line, a non-blank line without a colon that is neither a key
\* line nor a terminator.
C2_MalformedRaises ==
    (rt_result.status # "none" /\ HasMalformedLine(cell.source)) =>
        rt_result.status = "ValueError"

\* the substring after the first colon of the line, trimmed
FirstColonValue(line) ==
    LET r == rstrip(line)
        i == CHOOSE k \in 1..Len(r) : r[k] = ":" /\ \A j \in 1..(k - 1) : r[j] # ":"
    IN strip(SubSeq(r, i + 1, Len(r)))

\* the last line of the block that starts with this key and holds a colon
LastKeyLine(source, key) ==
    LET K == {k \in MetadataLines(source) :
                 KeyLine(source[k], key) /\ contains(source[k], <<":">>)}
    IN IF K = {} THEN 0 ELSE CHOOSE k \in K : \A j \in K : j <= k

\* C12: hidden is true iff "hidden" occurs, in any case, in the first line
\* of the cell, unless a hidden: line of the BEGIN TEST block overrides it:
\* then hidden is true iff the trimmed value of that line contains "true" in
\* any case. Stated for the cells whose first line begins the block.
C12_HiddenFlag ==
    (rt_result.status = "done" /\ BeginsBlock(cell.source[1])) =>
        LET k == LastKeyLine(cell.source, S_hidden)
        IN rt_result.test.hidden =
              IF k = 0 THEN contains(lower(cell.source[1]), S_hidden)
              ELSE contains(lower(FirstColonValue(cell.source[k])), S_true)

\* C13: inside a BEGIN TEST block a line starting with points,
\* success_message or failure_message sets the field from the substring after
\* the FIRST colon of the line, trimmed: success_message: Note: good gives
\* Note: good. Stated for the cells whose first line begins the block.
C13_FirstColon ==
    (rt_result.status = "done" /\ BeginsBlock(cell.source[1])) =>
        LET t == rt_result.test
            set(field, key) ==
                LET k == LastKeyLine(cell.source, key)
                IN k # 0 => field = Some(FirstColonValue(cell.source[k]))
        IN /\ set(t.points, S_points)
           /\ set(t.success_message, S_success)
           /\ set(t.failure_message, S_failure)

----------------------------------------------------------------------------
(* Claims about gen_test_cell (SpecGen)                                    *)

Stored == tests_dict[question["name"]]

HasPoints(q) == "points" \in DOMAIN q

\* C8 as stated: the stored points are `each` times the number of cases for a
\* mapping with key `each`, the list for a list as long as the tests, any
\* other value as given, and 1 without a points entry.
C8_Original ==
    gen_result.status = "done" =>
        Stored.points =
            IF ~HasPoints(question) THEN Number(1)
            ELSE IF question["points"].kind = "dict" /\ question["points"].key = "each"
            THEN Number(question["points"].value[1] * Len(Stored.suites[1].cases))
            ELSE question["points"]

\* C8 as amended: for every mapping the stored points are the value of its key
\* `each`, or 1 when the mapping has no such key, times the number of cases;
\* for a list as long as the tests the list; for a value that is neither a
\* mapping nor a list that value; and 1 without a points entry.
C8_StoredPoints ==
    gen_result.status = "done" =>
        Stored.points =
            IF ~HasPoints(question) THEN Number(1)
            ELSE IF question["points"].kind = "dict"
            THEN Number((IF question["points"].key = "each"
                         THEN question["points"].value[1] ELSE 1)
                        * Len(Stored.suites[1].cases))
            ELSE question["points"]

C8_Witness ==
    /\ gen_result.status = "done"
    /\ HasPoints(question)
    /\ question["points"] = Mapping("other", 5)
    /\ Len(tests) = 2
    /\ Stored.points = Number(2)

\* C9: a call with a points list whose length differs from the number of tests
\* raises an error whose message names the question, and leaves tests_dict as
\* it was before the call.
C9_MismatchRaises ==
    [][ ( /\ gen_result.status = "none"
          /\ gen_result'.status # "none"
          /\ HasPoints(question')
          /\ question'["points"].kind = "list"
          /\ Len(question'["points"].value) # Len(tests') )
        => ( /\ gen_result'.status = "ValueError"
             /\ gen_result'.message.question = question'["name"]
             /\ tests_dict' = tests_dict ) ]_vars

\* C10: when assembly succeeds the registered test has exactly one suite, with
\* one case per input Test, case k built from Test k.
C10_OneCasePerTest ==
    gen_result.status = "done" =>
        /\ Len(Stored.suites) = 1
        /\ Len(Stored.suites[1].cases) = Len(tests)
        /\ \A k \in 1..Len(tests) :
              LET c == Stored.suites[1].cases[k]
              IN /\ c = gen_case(tests[k]).case
                 /\ c.hidden = tests[k].hidden
                 /\ c.points.some = tests[k].points.some
                 /\ c.success_message = tests[k].success_message
                 /\ c.failure_message = tests[k].failure_message

C10_Witness ==
    /\ gen_result.status = "done"
    /\ tests = <<T_hidden, T_public>>
    /\ Len(Stored.suites) = 1
    /\ Stored.suites[1].cases[1].hidden
    /\ ~Stored.suites[1].cases[2].hidden

\* the keys of tests_dict
Keys(td) == {n \in DOMAIN td : td[n] # NoEntry}

\* C22: after a successful gen_test_cell call tests_dict holds one entry per
\* distinct question name of the calls made on it, the entry of the call's
\* name being the test this call assembled and every other entry as the call
\* found it; a call whose name is already a key ends as it does on an empty
\* tests_dict, replacing the earlier test without raising.
C22_LatestWins ==
    gen_result.status \notin {"none", "idle"} =>
        LET name  == question["name"]
            alone == gen_test_cell(question, tests, EmptyDict)
        IN /\ gen_result.status = alone.status
           /\ gen_result.status = "done" =>
                 /\ Keys(tests_dict) = Keys(gen_result.found) \cup {name}
                 /\ tests_dict[name] = alone.tests_dict[name]
                 /\ tests_dict[name].name = name
                 /\ \A n \in Names \ {name} : tests_dict[n] = gen_result.found[n]

C22_Witness ==
    /\ gen_result.status = "done"
    /\ question["name"] = "q1"
    /\ gen_result.found["q1"] # NoEntry
    /\ Len(gen_result.found["q1"].suites[1].cases) = 1
    /\ tests = <<T_hidden, T_public>>
    /\ Len(tests_dict["q1"].suites[1].cases) = 2
    /\ tests_dict["q1"] # gen_result.found["q1"]
    /\ Keys(tests_dict) = {"q1"}

----------------------------------------------------------------------------
(* Claims about remove_hidden_tests_from_dir (SpecRedact)                  *)

NotHidden(c) == ~c.hidden

\* C6: in every test file a run has rewritten, each suite holds no hidden case
\* and holds the cases that were not hidden before the run, unchanged and in
\* their order.
C6_HiddenRemoved ==
    \A n \in 1..Len(run_log) :
        \A k \in run_log[n].written :
            LET before == exec_test(run_log[n].before[k].text)
                after  == exec_test(run_log[n].after[k].text)
            IN /\ Len(after.suites) = Len(before.suites)
               /\ \A j \in 1..Len(after.suites) :
                     /\ \A i \in 1..Len(after.suites[j].cases) :
                           ~after.suites[j].cases[i].hidden
                     /\ after.suites[j].cases = SelectSeq(before.suites[j].cases, NotHidden)

C6_Witness ==
    /\ Len(run_log) >= 1
    /\ \E k \in run_log[1].written :
          LET before == exec_test(run_log[1].before[k].text)
              after  == exec_test(run_log[1].after[k].text)
          IN /\ Len(before.suites[1].cases) = 3
             /\ before.suites[1].cases[1].hidden
             /\ ~before.suites[1].cases[2].hidden
             /\ before.suites[1].cases[3].hidden
             /\ after.suites[1].cases = <<before.suites[1].cases[2]>>

\* C7: a second run, and every later one, leaves every file of the directory
\* as the first run left it.
C7_Idempotent ==
    \A n \in 2..Len(run_log) : run_log[n].after = run_log[1].after

C7_Witness ==
    /\ Len(run_log) >= 2
    /\ run_log[1].written # {}
    /\ run_log[1].after # run_log[1].before
    /\ run_log[2].after = run_log[1].after
    /\ test_dir = run_log[1].after

\* the points entries paired with the cases that are not hidden, from case i on
RECURSIVE PointsOfKept(_, _, _)
PointsOfKept(cases, points, i) ==
    IF i > Len(cases) THEN <<>>
    ELSE IF cases[i].hidden THEN PointsOfKept(cases, points, i + 1)
    ELSE <<points[i]>> \o PointsOfKept(cases, points, i + 1)

\* a test file of one suite whose points are a list with one entry per case
PairedPoints(test) ==
    /\ Len(test.suites) = 1
    /\ test.points.kind = "list"
    /\ Len(test.points.value) = Len(test.suites[1].cases)

\* C21: for a test file with one suite whose points are a list paired index
\* by index with the cases, a run that rewrites the file leaves a points list
\* with exactly one entry per remaining case, and the entry at each position
\* is the one that was paired with that surviving case before the run.
C21_PointsInLockstep ==
    \A n \in 1..Len(run_log) :
        \A k \in run_log[n].written :
            PairedPoints(exec_test(run_log[n].before[k].text)) =>
                LET before == exec_test(run_log[n].before[k].text)
                    after  == exec_test(run_log[n].after[k].text)
                IN /\ after.points.kind = "list"
                   /\ Len(after.points.value) = Len(after.suites[1].cases)
                   /\ after.points.value =
                          PointsOfKept(before.suites[1].cases, before.points.value, 1)

C21_Witness ==
    /\ Len(run_log) >= 1
    /\ \E k \in run_log[1].written :
          LET before == exec_test(run_log[1].before[k].text)
              after  == exec_test(run_log[1].after[k].text)
          IN /\ PairedPoints(before)
             /\ before.points.value = <<10, 20, 30>>
             /\ before.suites[1].cases[1].hidden
             /\ ~before.suites[1].cases[2].hidden
             /\ before.suites[1].cases[3].hidden
             /\ after.points.value = <<20>>
             /\ Len(after.suites[1].cases) = 1

----------------------------------------------------------------------------
(* Claims about gen_case (SpecCase)                                        *)

\* C11: the case gen_case builds has a non-empty code, and the final element
\* of its body, the text after the last converted line, is exactly the
\* expected output of the Test (possibly empty); this holds also when the
\* input is empty or is only a metadata block.
C11_CodeEndsWithOutput ==
    gc_result.status = "done" =>
        LET code == gc_result.case.code
            kept == gc_result.code_lines
        IN /\ Len(code) > 0
           /\ Len(kept) > 0
           /\ \E k \in 1..Len(kept) :
                 code = join("\n", Append(SubSeq(kept, k, Len(kept)), gc_test.output))
           /\ gc_test.input = <<>> => code = PROMPT \o <<"\n">> \o gc_test.output

\* an input that is only a metadata block, with no expected output
C11_Witness ==
    /\ gc_test.input = join("\n", <<R_points, END>>)
    /\ gc_test.output = <<>>
    /\ gc_result.status = "done"
    /\ Len(gc_result.case.code) > 0

\* the converted lines whose right-stripped text ends with the END marker
EndMarked(cl) == {k \in 1..Len(cl) : endswith(rstrip(cl[k]), END)}

Last(S) == IF S = {} THEN 0 ELSE CHOOSE k \in S : \A j \in S : j <= k

\* the code of a case whose body is code_lines after its first n lines
CodeAfter(n) ==
    join("\n", Append(SubSeq(gc_result.code_lines, n + 1, Len(gc_result.code_lines)),
                      gc_test.output))

\* C19: gen_case discards every converted line up to and
\* including the last converted line that ends with # END TEST, wherever it
\* is, the final converted line included; without such a line it discards
\* nothing.
C19_DiscardsThroughLastMarker ==
    gc_result.status = "done" =>
        gc_result.case.code = CodeAfter(Last(EndMarked(gc_result.converted)))

\* C20: converted line i gets a `;` iff line i+1 exists and starts with
\* >>>, the stripped line i is longer than 3 characters and does not end
\* with a backslash; the last converted line and a line followed by a
\* continuation line never get one.
C20_SeparatorRule ==
    gc_result.status = "done" =>
        LET cl == gc_result.converted
            out == gc_result.code_lines
        IN /\ Len(out) = Len(cl)
           /\ \A i \in 1..Len(cl) :
                 LET gets == /\ i < Len(cl)
                             /\ SubSeq(cl[i + 1], 1, 3) = <<">", ">", ">">>
                             /\ Len(strip(cl[i])) > 3
                             /\ strip(cl[i])[Len(strip(cl[i]))] # "\\"
                 IN /\ gets => out[i] = cl[i] \o <<";">>
                    /\ ~gets => out[i] = cl[i]
           /\ out[Len(cl)] = cl[Len(cl)]
           /\ \A i \in 1..(Len(cl) - 1) :
                 SubSeq(cl[i + 1], 1, 4) = CONT => out[i] = cl[i]

\* a statement before an empty line before a statement: only the first
\* line gets the separator
C20_Witness ==
    /\ gc_test.input = join("\n", <<L_x1, L_empty, L_x1>>)
    /\ gc_result.status = "done"
    /\ gc_result.code_lines = <<PROMPT \o L_x1 \o <<";">>, PROMPT, PROMPT \o L_x1>>

----------------------------------------------------------------------------
(* Claims about is_test_cell (SpecClassify)                                *)

\* the two triggers of a test cell
FirstLineMarked(c) == Len(get_source(c)) > 0 /\ match_test(get_source(c)[1])
Structured(c)      == Len(get_source(c)) > 0 /\ match_meta(concat(get_source(c)))

ListCell(type, ls) ==
    [cell_type |-> type, source |-> [kind |-> "list", lines |-> ls, text |-> <<>>]]

\* C14: is_test_cell reports a test cell iff the cell is a code cell and
\* either its first source line matches the test marker (in any case) or the
\* concatenation of its source lines matches the structured metadata pattern;
\* either trigger suffices, and a cell that is no code cell or has an empty
\* source is never a test cell.
C14_TestCellIff ==
    is_test \in {"test", "other"} =>
        /\ is_test = "test" <=>
              /\ nb_cell.cell_type = "code"
              /\ FirstLineMarked(nb_cell) \/ Structured(nb_cell)
        /\ nb_cell.cell_type # "code" => is_test = "other"
        /\ get_source(nb_cell) = <<>> => is_test = "other"
        /\ nb_cell = ListCell("code", <<N_test, R_assert>>) => is_test = "test"
        /\ nb_cell = ListCell("code", <<BEGIN, R_assert>>) => is_test = "test"
        /\ nb_cell = ListCell("code", <<R_assert, R_test>>) => is_test = "other"
        /\ nb_cell = ListCell("markdown", <<R_test>>) => is_test = "other"

\* a code cell that only the second trigger makes a test cell
C14_Witness ==
    /\ nb_cell = ListCell("code", <<L_empty, N_begin>>)
    /\ ~FirstLineMarked(nb_cell)
    /\ is_test = "test"

----------------------------------------------------------------------------
(* Claims about the batch of containers (SpecBatch, SpecBatchFair)         *)

BatchEnded == batch.pc \in {"returned", "raised"}

Submitted == {i \in WorkerIds : i < batch.num_containers}

\* C15: if any command a worker runs (launch, copy-in, install, grade,
\* copy-out, stop, remove) fails, by a non-zero exit or by text on stderr, the
\* batch ends by raising the exception that names the failed operation; it
\* never returns normally with the results of that worker.
C15_FailureAborts ==
    (BatchEnded /\ \E i \in Submitted : workers[i].failed) =>
        /\ batch.pc = "raised"
        /\ batch.exc = "Exception"

\* C16: on every exit path of a worker, return or exception, the container
\* it launched has been stopped and removed before the worker finishes: at
\* the least the stop and remove commands have been run on it.
C16_ContainerReleased ==
    \A i \in Submitted :
        completed(workers[i]) =>
            \/ workers[i].container \in {"none", "removed"}
            \/ workers[i].cleanup

\* C17: a worker that never finishes cannot stall the batch:
\* launch_parallel_containers eventually returns or raises.
C17_BatchEnds == <>BatchEnded

\* C23: from the launch on, no tmp directory is removed and the batch does not
\* end with a result (or an exception) until every one of the num_containers
\* workers has returned or raised; and when the batch ends, by returning or
\* by raising a worker's exception, every tmp directory has been removed
\* before the results were collected.
C23_CleanupAfterAll ==
    /\ (batch.pc \in {"waiting", "cleaning", "returned", "raised"}
        /\ (batch.tmp_dirs # Submitted \/ BatchEnded)) =>
            \A i \in Submitted : completed(workers[i])
    /\ batch.pc = "waiting" => batch.tmp_dirs = Submitted
    /\ BatchEnded => batch.tmp_dirs = {}

C23_Witness ==
    /\ batch.pc = "raised"
    /\ batch.num_containers = 2
    /\ workers[0].status = "returned"
    /\ workers[1].status = "raised"
    /\ batch.tmp_dirs = {}

----------------------------------------------------------------------------
(* Claims about run_tests (SpecRun)                                        *)

\* C18: run_tests raises a RuntimeError, carrying the indented summary of
\* the results, iff the results have total # possible; with total = possible
\* it returns without raising.
C18_RaisesIffImperfect ==
    (rn_result.status \notin {"none", "idle"} /\ ~rn_results.raised) =>
        LET given == split(rn_results.summary, "\n")
            shown == split(rn_result.message.summary, "\n")
        IN /\ rn_result.status = "RuntimeError" <=> rn_results.total # rn_results.possible
           /\ rn_results.total = rn_results.possible => rn_result.status = "returned"
           /\ rn_result.status = "RuntimeError" =>
                 /\ Len(shown) = Len(given)
                 /\ \A k \in 1..Len(given) :
                       shown[k] = IF \E j \in 1..Len(given[k]) : given[k][j] \notin Whitespace
                                  THEN <<" ", " ", " ", " ">> \o given[k]
                                  ELSE given[k]

\* a run with more points than possible raises, with the summary indented
C18_Witness ==
    /\ rn_results.total > rn_results.possible
    /\ Len(rn_results.summary) > 2
    /\ rn_result.status = "RuntimeError"
    /\ startswith(rn_result.message.summary, <<" ", " ", " ", " ", "q">>)

----------------------------------------------------------------------------
(* Claims about the tmp directories (SpecPartition)                        *)

\* the names of the submissions of the directory
Submissions ==
    {partition.listing[k].name : k \in
        {j \in 1..Len(partition.listing) :
            /\ partition.listing[j].isfile
            /\ endswith(partition.listing[j].name, file_extension(partition.scripts))}}

\* the submissions in tmp directory i
SubmissionsIn(i) == partition.tmp[i] \cap Submissions

\* C25: once the notebooks are copied, the submissions are partitioned over
\* tmp0..tmp{n-1}: every file of the directory with the selected extension is
\* in exactly one tmp directory, submission k in tmp(k mod n), nothing else
\* with that extension is in any of them, and the numbers of submissions of
\* two directories differ by at most one.
C25_Partition ==
    partition.pc = "copied" =>
        LET n == partition.num_containers
        IN /\ n = IF partition.given = 0 THEN DefaultContainers ELSE partition.given
           /\ partition.tmp_dirs = 0..(n - 1)
           /\ {partition.notebooks[k] : k \in 1..Len(partition.notebooks)} = Submissions
           /\ Len(partition.notebooks) = Cardinality(Submissions)
           /\ \A f \in Submissions :
                 Cardinality({i \in DOMAIN partition.tmp : f \in partition.tmp[i]}) = 1
           /\ \A k \in 1..Len(partition.notebooks) :
                 partition.notebooks[k] \in partition.tmp[(k - 1) % n]
           /\ \A i \in DOMAIN partition.tmp :
                 /\ i \notin partition.tmp_dirs => partition.tmp[i] = {}
                 /\ F_dir.name \notin partition.tmp[i]
           /\ \A i, j \in partition.tmp_dirs :
                 Cardinality(SubmissionsIn(i)) <= Cardinality(SubmissionsIn(j)) + 1

C25_Witness ==
    /\ partition.pc = "copied"
    /\ partition.num_containers = 2
    /\ partition.listing = <<F_b, F_a, F_c>>
    /\ ~partition.scripts
    /\ partition.tmp[0] = {F_b.name, F_c.name}
    /\ partition.tmp[1] = {F_a.name}

----------------------------------------------------------------------------
(* Claims about run_generate_autograder (SpecGenerate)                     *)

\* C26: on every exit path of run_generate_autograder, the RuntimeError for
\* a missing temp tests directory and an exception of the generate step
\* included, the working directory after the call is the one before it.
C26_CwdRestored ==
    generate.call.status \notin {"none", "idle"} => generate.call.cwd = CurrDir

----------------------------------------------------------------------------
(* Claims about add_tag, has_tag and remove_tag (SpecTags)                 *)

\* C27: for every cell a sequence of add_tag and remove_tag calls reaches and
\* every tag t, the copy remove_tag returns does not have t, the copy add_tag
\* returns has t, and neither call changes the tags of the cell it was given.
C27_TagRelations ==
    /\ tag_call.op = "remove_tag" => ~has_tag(tag_call.result, tag_call.tag)
    /\ tag_call.op = "add_tag" => has_tag(tag_call.result, tag_call.tag)
    /\ tag_call.op \in {"add_tag", "remove_tag"} => tag_call.given_after = tag_call.given

====
